---- MODULE Spec2Model ----
(***************************************************************************)
(* Model of server/main.py: the Flask application that relays an image URL *)
(* to a label-detection service and a text-generation service.             *)
(*                                                                         *)
(* Texts (environment values, request bodies, generated text) are token    *)
(* sequences; json_loads parses them into Python values.  Requests carry   *)
(* Content-Type application/json.                                          *)
(***************************************************************************)
EXTENDS Integers, Sequences, FiniteSets, TLC

\* Longest label sequence the label-detection service returns in the model.
MaxLabels == 6

\* Length above which len(api_key) > 20 holds (main.py line 83).
KeyMinLen == 20

\* 0-based position of the label the prompt refers to (main.py line 159).
LabelIndex == 4

-----------------------------------------------------------------------------
(* Tokens and Python values *)

P(v) == [k |-> "p", v |-> v]
S(v) == [k |-> "s", v |-> v]
N(v) == [k |-> "n", v |-> v]
L(v) == [k |-> "l", v |-> v]
W(v) == [k |-> "w", v |-> v]

PyNone == [t |-> "None", s |-> "", items |-> <<>>]
PyScalar(tok) ==
  CASE tok.k = "s" -> [t |-> "str", s |-> tok.v, items |-> <<>>]
    [] tok.k = "n" -> [t |-> "int", s |-> tok.v, items |-> <<>>]
    [] tok.k = "l" /\ tok.v = "null" -> PyNone
    [] OTHER -> [t |-> "bool", s |-> tok.v, items |-> <<>>]
PyDict(items) == [t |-> "dict", s |-> "", items |-> items]
PyList(items) == [t |-> "list", s |-> "", items |-> items]
Item(key, tok) == [key |-> key, vt |-> PyScalar(tok).t, vs |-> PyScalar(tok).s]

IsScalarTok(tok) == tok.k \in {"s", "n", "l"}

ParseError == [ok |-> FALSE, value |-> PyNone]
Parsed(v) == [ok |-> TRUE, value |-> v]

\* members ::= string ":" scalar ( "," string ":" scalar )*
RECURSIVE ParseMembers(_, _)
ParseMembers(toks, acc) ==
  IF Len(toks) < 3 THEN ParseError
  ELSE IF ~(toks[1].k = "s" /\ toks[2] = P(":") /\ IsScalarTok(toks[3])) THEN ParseError
  ELSE LET acc2 == Append(acc, Item(toks[1].v, toks[3]))
       IN  IF Len(toks) = 3 THEN Parsed(PyDict(acc2))
           ELSE IF toks[4] # P(",") THEN ParseError
           ELSE ParseMembers(SubSeq(toks, 5, Len(toks)), acc2)

\* elements ::= scalar ( "," scalar )*
RECURSIVE ParseElements(_, _)
ParseElements(toks, acc) ==
  IF Len(toks) < 1 THEN ParseError
  ELSE IF ~IsScalarTok(toks[1]) THEN ParseError
  ELSE LET acc2 == Append(acc, Item("", toks[1]))
       IN  IF Len(toks) = 1 THEN Parsed(PyList(acc2))
           ELSE IF toks[2] # P(",") THEN ParseError
           ELSE ParseElements(SubSeq(toks, 3, Len(toks)), acc2)

\* json.loads on a text: JSONDecodeError (ok = FALSE) or the Python value.
json_loads(toks) ==
  LET n == Len(toks) IN
  IF n = 0 THEN ParseError
  ELSE IF n = 1 THEN (IF IsScalarTok(toks[1]) THEN Parsed(PyScalar(toks[1])) ELSE ParseError)
  ELSE IF toks[1] = P("{") /\ toks[n] = P("}")
       THEN (IF n = 2 THEN Parsed(PyDict(<<>>)) ELSE ParseMembers(SubSeq(toks, 2, n - 1), <<>>))
  ELSE IF toks[1] = P("[") /\ toks[n] = P("]")
       THEN (IF n = 2 THEN Parsed(PyList(<<>>)) ELSE ParseElements(SubSeq(toks, 2, n - 1), <<>>))
  ELSE ParseError

\* Python truth value: `not x` is ~Truthy(x).
Truthy(v) ==
  CASE v.t = "None" -> FALSE
    [] v.t = "bool" -> v.s = "true"
    [] v.t = "int"  -> v.s # "0"
    [] v.t = "str"  -> v.s # ""
    [] OTHER        -> Len(v.items) > 0

\* `f in x` is defined for dict (keys), list (elements) and str (substring);
\* on int, bool and None it raises TypeError.
SupportsIn(v) == v.t \in {"dict", "list", "str"}
\* The str case is the substring test on the strings of this model, none of
\* which properly contains a field name.
PyIn(f, v) ==
  CASE v.t = "dict" -> \E i \in 1..Len(v.items) : v.items[i].key = f
    [] v.t = "list" -> \E i \in 1..Len(v.items) : v.items[i].vt = "str" /\ v.items[i].vs = f
    [] OTHER        -> v.s = f

\* dict.get(key): the value of the last member with that key, else None.
DictGet(v, key) ==
  LET idx == {i \in 1..Len(v.items) : v.items[i].key = key} IN
  IF idx = {} THEN PyNone
  ELSE LET i == CHOOSE j \in idx : \A m \in idx : m <= j
       IN  [t |-> v.items[i].vt, s |-> v.items[i].vs, items |-> <<>>]

-----------------------------------------------------------------------------
(* Process-wide configuration *)

RECURSIVE MembersText(_)
MembersText(members) ==
  IF Len(members) = 0 THEN <<>>
  ELSE <<S(members[1][1]), P(":"), members[1][2]>>
       \o (IF Len(members) = 1 THEN <<>> ELSE <<P(",")>>)
       \o MembersText(Tail(members))
ObjectText(members) == <<P("{")>> \o MembersText(members) \o <<P("}")>>

required_fields == <<"type", "project_id", "private_key", "client_email">>

\* Values of the GOOGLE_CREDENTIALS environment variable.
GoogleCredentialsValues ==
  { <<>>,                                            \* unset or empty
    <<W("service-account")>>,                        \* not JSON
    <<P("{"), S("type"), P(":")>>,                   \* truncated JSON
    <<N("5")>>,                                      \* JSON number
    <<L("null")>>,                                   \* JSON null
    <<S("type")>>,                                   \* JSON string
    <<P("["), S("type"), P(","), S("project_id"), P(","),
      S("private_key"), P(","), S("client_email"), P("]")>>,
    ObjectText(<<>>),
    ObjectText(<< <<"type", S("service_account")>>, <<"project_id", S("p")>>,
                  <<"client_email", S("a@b")>> >>),
    ObjectText(<< <<"type", S("service_account")>>, <<"project_id", S("p")>>,
                  <<"private_key", S("pem")>>, <<"client_email", S("a@b")>> >>),
    ObjectText(<< <<"type", S("service_account")>>, <<"project_id", S("p")>>,
                  <<"private_key", S("pem")>>, <<"client_email", S("a@b")>>,
                  <<"token_uri", S("https://oauth")>> >>) }

\* Values of OPENAI_API_KEY: the first characters and the length of the string.
ApiKey(head, len) == [head |-> head, len |-> len]
OpenAIKeyValues ==
  { ApiKey(<<>>, 0),                                 \* unset or empty
    ApiKey(<<"s", "k", "-">>, 3),
    ApiKey(<<"s", "k", "-">>, KeyMinLen),
    ApiKey(<<"s", "k", "-">>, KeyMinLen + 1),
    ApiKey(<<"p", "k", "-">>, KeyMinLen + 1),
    ApiKey(<<"s", "k">>, 2),
    ApiKey(<<"s", "k", "-">>, 51) }

startswith(key, prefix) ==
  Len(key.head) >= Len(prefix) /\ SubSeq(key.head, 1, Len(prefix)) = prefix

NoCredStatus ==
  [called |-> FALSE, raised |-> FALSE, google |-> FALSE, openai |-> FALSE, errors |-> <<>>]

\* The Google half of check_credentials (lines 63-76); raised = TypeError
\* from `f not in creds_dict`, which the function does not catch.
check_google(creds) ==
  IF creds = <<>> THEN [raised |-> FALSE, google |-> FALSE,
                        errors |-> <<"GOOGLE_CREDENTIALS not found in environment">>]
  ELSE LET p == json_loads(creds) IN
       IF ~p.ok THEN [raised |-> FALSE, google |-> FALSE,
                      errors |-> <<"Invalid Google credentials JSON">>]
       ELSE IF ~SupportsIn(p.value) THEN [raised |-> TRUE, google |-> FALSE, errors |-> <<>>]
       ELSE LET missing == {i \in 1..Len(required_fields) : ~PyIn(required_fields[i], p.value)}
            IN  IF missing # {}
                THEN [raised |-> FALSE, google |-> FALSE,
                      errors |-> <<"Missing fields in Google credentials">>]
                ELSE [raised |-> FALSE, google |-> TRUE, errors |-> <<>>]

\* The OpenAI half of check_credentials (lines 78-86).
check_openai(api_key) ==
  IF api_key.len = 0 THEN [openai |-> FALSE, errors |-> <<"OPENAI_API_KEY not found in environment">>]
  ELSE IF startswith(api_key, <<"s", "k", "-">>) /\ api_key.len > KeyMinLen
       THEN [openai |-> TRUE, errors |-> <<>>]
       ELSE [openai |-> FALSE, errors |-> <<"Invalid OpenAI API key format">>]

check_credentials(environ) ==
  LET g == check_google(environ.GOOGLE_CREDENTIALS)
      o == check_openai(environ.OPENAI_API_KEY)
  IN  IF g.raised
      THEN [called |-> TRUE, raised |-> TRUE, google |-> FALSE, openai |-> FALSE, errors |-> <<>>]
      ELSE [called |-> TRUE, raised |-> FALSE, google |-> g.google, openai |-> o.openai,
            errors |-> g.errors \o o.errors]

\* Module start-up (lines 17-51): the client exists only when the blob
\* parses, names every required field and the client library accepts it
\* (constructed); every exception leaves vision_client = None.
startup_vision_client(creds, constructed) ==
  IF creds = <<>> THEN "None"
  ELSE LET p == json_loads(creds) IN
       IF ~p.ok THEN "None"
       ELSE IF ~SupportsIn(p.value) THEN "None"
       ELSE IF \E i \in 1..Len(required_fields) : ~PyIn(required_fields[i], p.value) THEN "None"
       ELSE IF p.value.t = "dict" /\ constructed THEN "client"
       ELSE "None"

-----------------------------------------------------------------------------
(* Requests and collaborator outcomes *)

\* Bodies of POST /analyze and POST /test.
RequestBodies ==
  { <<>>,                                            \* empty body
    <<P("{"), S("imageUrl"), P(":")>>,               \* truncated JSON
    <<W("imageUrl=http://img")>>,                    \* not JSON
    <<L("null")>>,
    ObjectText(<<>>),
    <<P("["), P("]")>>,
    <<P("["), S("http://img"), P("]")>>,
    <<S("http://img")>>,
    ObjectText(<< <<"url", S("http://img")>> >>),
    ObjectText(<< <<"imageUrl", S("")>> >>),
    ObjectText(<< <<"imageUrl", L("null")>> >>),
    ObjectText(<< <<"imageUrl", N("5")>> >>),
    ObjectText(<< <<"imageUrl", S("http://img")>> >>),
    ObjectText(<< <<"imageUrl", S("http://img")>>, <<"extra", S("x")>> >>) }

\* requests.get(image_url): a response with ok, a response without, or an
\* exception; a URL that is not a string never yields a response.
DownloadOutcomes(url) ==
  IF url.t = "str" THEN {"ok", "notok", "raise"} ELSE {"raise"}

LabelNames == {"Sleeve", "T-shirt"}
LabelSets == UNION {[1..n -> LabelNames] : n \in 0..MaxLabels}

SixKeys == <<"color", "collar_type", "sleeve_type", "fit", "style", "pattern">>
KeyMembers(keys) == [i \in 1..Len(keys) |-> <<keys[i], S("solid")>>]

\* Texts the generation service may return as message content.
GeneratedTexts ==
  { ObjectText(KeyMembers(SixKeys)),
    ObjectText(KeyMembers(<<"color", "fit">>)),
    ObjectText(KeyMembers(SixKeys \o <<"brand">>)),
    ObjectText(<<>>),
    <<P("["), P("]")>>,
    <<L("null")>>,
    <<W("Sure"), P("{"), S("color"), P(":"), S("solid"), P("}")>>,
    <<P("{"), S("color"), P(":"), S("solid"), P(",")>>,   \* cut at max_tokens
    <<>> }

\* openai.chat.completions.create and .choices[0].message.content.
GenerationOutcomes ==
  {[kind |-> k, text |-> <<>>] : k \in {"AuthenticationError", "APIError", "Exception", "NoContent"}}
  \cup {[kind |-> "content", text |-> t] : t \in GeneratedTexts}

-----------------------------------------------------------------------------
(* State *)

VARIABLES
  environ,        \* os.environ: GOOGLE_CREDENTIALS and OPENAI_API_KEY
  vision_client,  \* module global: "client" or "None"
  pc,             \* position of the request being served
  request,        \* route and body of the request being served
  cred_status,    \* result of the last check_credentials call of the request
  data,           \* request.get_json()
  image_url,      \* data.get('imageUrl')
  labels,         \* label descriptions
  prompt,         \* the prompt built from the labels
  specifics,      \* completion.choices[0].message.content
  calls,          \* external calls of the request, in order, with their outcome
  stages,         \* stages of analyze executed by the request, in order
  response        \* the response sent

vars == <<environ, vision_client, pc, request, cred_status, data, image_url, labels,
          prompt, specifics, calls, stages, response>>

config == <<environ, vision_client>>
locals == <<data, image_url, labels, prompt, specifics>>

NoRequest == [route |-> "", body |-> <<>>]
NoPrompt == [built |-> FALSE, raised |-> FALSE, labels |-> <<>>, item |-> ""]
NoSpecifics == [present |-> FALSE, text |-> <<>>]
NoResponse ==
  [status |-> 0, kind |-> "", error |-> "", hasError |-> FALSE, hasDetails |-> FALSE,
   success |-> FALSE, itemSpecifics |-> NoSpecifics, labels |-> <<>>,
   credentials |-> NoCredStatus, statusField |-> ""]

\* jsonify({"error": msg}), code  and  jsonify({"error": msg, "details": ...}), code
ErrorResponse(code, msg) ==
  [NoResponse EXCEPT !.status = code, !.kind = "json", !.error = msg, !.hasError = TRUE]
ErrorDetailsResponse(code, msg) ==
  [ErrorResponse(code, msg) EXCEPT !.hasDetails = TRUE]
\* the outer handler of analyze (lines 210-213): jsonify({"error": str(e)}), 500
CaughtResponse(exc) == ErrorResponse(500, exc)
\* an exception that leaves a view function: Flask answers 500 with an HTML page
UnhandledResponse == [NoResponse EXCEPT !.status = 500, !.kind = "html"]

Init ==
  /\ environ \in [GOOGLE_CREDENTIALS : GoogleCredentialsValues, OPENAI_API_KEY : OpenAIKeyValues]
  /\ \E constructed \in BOOLEAN :
       vision_client = startup_vision_client(environ.GOOGLE_CREDENTIALS, constructed)
  /\ pc = "Idle"
  /\ request = NoRequest
  /\ cred_status = NoCredStatus
  /\ data = PyNone
  /\ image_url = PyNone
  /\ labels = <<>>
  /\ prompt = NoPrompt
  /\ specifics = NoSpecifics
  /\ calls = <<>>
  /\ stages = <<>>
  /\ response = NoResponse

Fail(resp) == pc' = "Failed" /\ response' = resp


\* request.get_json(): malformed JSON raises BadRequest.
get_json(body) ==
  LET p == json_loads(body) IN [raised |-> ~p.ok, value |-> p.value]

\* seq[i] with a 0-based index: IndexError past the end.
ListIndex(seq, i) ==
  IF i < Len(seq) THEN [raised |-> FALSE, value |-> seq[i + 1]]
  ELSE [raised |-> TRUE, value |-> ""]

\* build_prompt with the guard off by one: len(labels) >= 4.
build_prompt_off_by_one(ls) ==
  LET ref == IF Len(ls) >= LabelIndex THEN ListIndex(ls, LabelIndex)
             ELSE [raised |-> FALSE, value |-> "clothing"]
  IN  [built |-> ~ref.raised, raised |-> ref.raised, labels |-> ls, item |-> ref.value]

\* The f-string of lines 144-163: the label list and
\* labels[4] if len(labels) > 4 else "clothing".
build_prompt(ls) ==
  LET ref == IF Len(ls) > LabelIndex THEN ListIndex(ls, LabelIndex)
             ELSE [raised |-> FALSE, value |-> "clothing"]
  IN  [built |-> ~ref.raised, raised |-> ref.raised, labels |-> ls, item |-> ref.value]

-----------------------------------------------------------------------------
(* POST /analyze *)

ReceiveAnalyze ==
  /\ pc = "Idle"
  /\ \E body \in RequestBodies : request' = [route |-> "POST /analyze", body |-> body]
  /\ pc' = "CheckingCredentials"
  /\ UNCHANGED <<config, cred_status, locals, calls, stages, response>>

\* CheckingCredentials without the test of vision_client (lines 109-113 dropped).
CheckingCredentials_no_client_test ==
  /\ pc = "CheckingCredentials"
  /\ stages' = Append(stages, "CheckingCredentials")
  /\ LET st == check_credentials(environ) IN
       /\ cred_status' = st
       /\ IF st.raised THEN Fail(CaughtResponse("TypeError"))
          ELSE IF ~st.google \/ ~st.openai
               THEN Fail(ErrorDetailsResponse(500, "Credential issues"))
          ELSE pc' = "ValidatingInput" /\ response' = response
  /\ UNCHANGED <<config, request, locals, calls>>

\* lines 100-113
CheckingCredentials ==
  /\ pc = "CheckingCredentials"
  /\ stages' = Append(stages, "CheckingCredentials")
  /\ LET st == check_credentials(environ) IN
       /\ cred_status' = st
       /\ IF st.raised THEN Fail(CaughtResponse("TypeError"))
          ELSE IF ~st.google \/ ~st.openai
               THEN Fail(ErrorDetailsResponse(500, "Credential issues"))
          ELSE IF vision_client = "None"
               THEN Fail(ErrorDetailsResponse(500, "Google Vision client not initialized"))
          ELSE pc' = "ValidatingInput" /\ response' = response
  /\ UNCHANGED <<config, request, locals, calls>>

\* lines 115-123
ValidatingInput ==
  /\ pc = "ValidatingInput"
  /\ stages' = Append(stages, "ValidatingInput")
  /\ LET got == get_json(request.body) IN
       IF got.raised
       THEN Fail(CaughtResponse("400 Bad Request")) /\ UNCHANGED <<data, image_url>>
       ELSE /\ data' = got.value
            /\ IF ~Truthy(got.value)
               THEN Fail(ErrorResponse(400, "No JSON data received")) /\ UNCHANGED image_url
               ELSE IF got.value.t # "dict"
               THEN Fail(CaughtResponse("AttributeError")) /\ UNCHANGED image_url
               ELSE /\ image_url' = DictGet(got.value, "imageUrl")
                    /\ IF ~Truthy(image_url')
                       THEN Fail(ErrorResponse(400, "No image URL provided"))
                       ELSE pc' = "Downloading" /\ response' = response
  /\ UNCHANGED <<config, request, cred_status, labels, prompt, specifics, calls>>

\* lines 127-134
Downloading ==
  /\ pc = "Downloading"
  /\ stages' = Append(stages, "Downloading")
  /\ \E outcome \in DownloadOutcomes(image_url) :
       /\ calls' = Append(calls, [name |-> "download", ok |-> outcome = "ok",
                                  raised |-> outcome = "raise"])
       /\ IF outcome = "raise" THEN Fail(CaughtResponse("RequestException"))
          ELSE IF outcome = "notok" THEN Fail(ErrorResponse(400, "Failed to download image"))
          ELSE pc' = "Labeling" /\ response' = response
  /\ UNCHANGED <<config, request, cred_status, locals>>

\* Labeling that swallows a failure of label detection and goes on with no labels.
Labeling_degraded ==
  /\ pc = "Labeling"
  /\ stages' = Append(stages, "Labeling")
  /\ \E outcome \in {[raised |-> TRUE, labels |-> <<>>]}
                      \cup {[raised |-> FALSE, labels |-> ls] : ls \in LabelSets} :
       /\ calls' = Append(calls, [name |-> "label_detection", ok |-> ~outcome.raised,
                                  raised |-> outcome.raised])
       /\ labels' = outcome.labels /\ pc' = "Prompting" /\ response' = response
  /\ UNCHANGED <<config, request, cred_status, data, image_url, prompt, specifics>>

\* lines 136-140
Labeling ==
  /\ pc = "Labeling"
  /\ stages' = Append(stages, "Labeling")
  /\ IF vision_client = "None"
     THEN Fail(CaughtResponse("AttributeError")) /\ UNCHANGED <<labels, calls>>
     ELSE \E outcome \in {[raised |-> TRUE, labels |-> <<>>]}
                         \cup {[raised |-> FALSE, labels |-> ls] : ls \in LabelSets} :
            /\ calls' = Append(calls, [name |-> "label_detection", ok |-> ~outcome.raised,
                                       raised |-> outcome.raised])
            /\ IF outcome.raised
               THEN Fail(CaughtResponse("GoogleAPICallError")) /\ UNCHANGED labels
               ELSE labels' = outcome.labels /\ pc' = "Prompting" /\ response' = response
  /\ UNCHANGED <<config, request, cred_status, data, image_url, prompt, specifics>>

\* lines 142-163
Prompting ==
  /\ pc = "Prompting"
  /\ stages' = Append(stages, "Prompting")
  /\ prompt' = build_prompt(labels)
  /\ IF prompt'.raised THEN Fail(CaughtResponse("IndexError"))
     ELSE pc' = "Generating" /\ response' = response
  /\ UNCHANGED <<config, request, cred_status, data, image_url, labels, specifics, calls>>

\* lines 165-184 and 192-200
Generating ==
  /\ pc = "Generating"
  /\ stages' = Append(stages, "Generating")
  /\ \E outcome \in GenerationOutcomes :
       /\ calls' = Append(calls, [name |-> "generate",
                                  ok |-> outcome.kind \in {"content", "NoContent"},
                                  raised |-> outcome.kind \notin {"content", "NoContent"}])
       /\ CASE outcome.kind = "AuthenticationError" ->
                 Fail(ErrorResponse(500, "OpenAI API key is invalid")) /\ UNCHANGED specifics
            [] outcome.kind = "APIError" ->
                 Fail(ErrorResponse(500, "OpenAI API Error")) /\ UNCHANGED specifics
            [] outcome.kind = "Exception" ->
                 Fail(ErrorResponse(500, "Error generating specifics")) /\ UNCHANGED specifics
            [] outcome.kind = "NoContent" ->
                 specifics' = NoSpecifics /\ pc' = "ValidatingOutput" /\ response' = response
            [] OTHER ->
                 /\ specifics' = [present |-> TRUE, text |-> outcome.text]
                 /\ pc' = "ValidatingOutput" /\ response' = response
  /\ UNCHANGED <<config, request, cred_status, data, image_url, labels, prompt>>

\* ValidatingOutput without the json.loads check (lines 186-190 dropped).
ValidatingOutput_unchecked ==
  /\ pc = "ValidatingOutput"
  /\ stages' = Append(stages, "ValidatingOutput")
  /\ pc' = "Responding" /\ response' = response
  /\ UNCHANGED <<config, request, cred_status, locals, calls>>

\* ValidatingOutput without the inner try: JSONDecodeError reaches line 198.
ValidatingOutput_outer_except ==
  /\ pc = "ValidatingOutput"
  /\ stages' = Append(stages, "ValidatingOutput")
  /\ IF ~specifics.present \/ ~json_loads(specifics.text).ok
     THEN Fail(ErrorResponse(500, "Error generating specifics"))
     ELSE pc' = "Responding" /\ response' = response
  /\ UNCHANGED <<config, request, cred_status, locals, calls>>

\* lines 186-190; json.loads(None) raises TypeError, caught at line 198
ValidatingOutput ==
  /\ pc = "ValidatingOutput"
  /\ stages' = Append(stages, "ValidatingOutput")
  /\ IF ~specifics.present THEN Fail(ErrorResponse(500, "Error generating specifics"))
     ELSE IF ~json_loads(specifics.text).ok
          THEN Fail(ErrorResponse(500, "Invalid JSON response from OpenAI"))
     ELSE pc' = "Responding" /\ response' = response
  /\ UNCHANGED <<config, request, cred_status, locals, calls>>

\* lines 202-208
Responding ==
  /\ pc = "Responding"
  /\ stages' = Append(stages, "Responding")
  /\ response' = [NoResponse EXCEPT !.status = 200, !.kind = "json", !.success = TRUE,
                                    !.itemSpecifics = specifics, !.labels = labels]
  /\ pc' = "Success"
  /\ UNCHANGED <<config, request, cred_status, locals, calls>>

\* lines 97-98
Options ==
  /\ pc = "Idle"
  /\ request' = [route |-> "OPTIONS /analyze", body |-> <<>>]
  /\ response' = [NoResponse EXCEPT !.status = 204, !.kind = "empty"]
  /\ pc' = "Answered"
  /\ UNCHANGED <<config, cred_status, locals, calls, stages>>

-----------------------------------------------------------------------------
(* The other routes *)

\* lines 90-92
Index ==
  /\ pc = "Idle"
  /\ request' = [route |-> "GET /", body |-> <<>>]
  /\ response' = [NoResponse EXCEPT !.status = 200, !.kind = "text"]
  /\ pc' = "Answered"
  /\ UNCHANGED <<config, cred_status, locals, calls, stages>>

\* lines 229-234
Ping ==
  /\ pc = "Idle"
  /\ request' = [route |-> "GET /ping", body |-> <<>>]
  /\ response' = [NoResponse EXCEPT !.status = 200, !.kind = "json", !.statusField = "ok"]
  /\ pc' = "Answered"
  /\ UNCHANGED <<config, cred_status, locals, calls, stages>>

\* lines 236-243
Status ==
  /\ pc = "Idle"
  /\ request' = [route |-> "GET /status", body |-> <<>>]
  /\ LET st == check_credentials(environ) IN
       /\ cred_status' = st
       /\ response' = IF st.raised THEN UnhandledResponse
                      ELSE [NoResponse EXCEPT !.status = 200, !.kind = "json",
                                              !.credentials = st]
  /\ pc' = "Answered"
  /\ UNCHANGED <<config, locals, calls, stages>>

\* lines 216-222; BadRequest leaving the view is answered 400 by Flask
Test ==
  /\ pc = "Idle"
  /\ \E body \in RequestBodies :
       /\ request' = [route |-> "POST /test", body |-> body]
       /\ LET got == get_json(body) IN
            /\ data' = got.value
            /\ response' = IF got.raised
                           THEN [NoResponse EXCEPT !.status = 400, !.kind = "html"]
                           ELSE [NoResponse EXCEPT !.status = 200, !.kind = "json",
                                                   !.success = TRUE]
  /\ pc' = "Answered"
  /\ UNCHANGED <<config, cred_status, image_url, labels, prompt, specifics, calls, stages>>

\* The response is sent; nothing of the request outlives it.
Finish ==
  /\ pc \in {"Success", "Failed", "Answered"}
  /\ pc' = "Idle"
  /\ request' = NoRequest
  /\ cred_status' = NoCredStatus
  /\ data' = PyNone
  /\ image_url' = PyNone
  /\ labels' = <<>>
  /\ prompt' = NoPrompt
  /\ specifics' = NoSpecifics
  /\ calls' = <<>>
  /\ stages' = <<>>
  /\ response' = NoResponse
  /\ UNCHANGED config

Next ==
  \/ ReceiveAnalyze
  \/ CheckingCredentials
  \/ ValidatingInput
  \/ Downloading
  \/ Labeling
  \/ Prompting
  \/ Generating
  \/ ValidatingOutput
  \/ Responding
  \/ Options
  \/ Index
  \/ Ping
  \/ Status
  \/ Test
  \/ Finish

Spec == Init /\ [][Next]_vars

-----------------------------------------------------------------------------
(* Properties *)

IsAnalyze == request.route = "POST /analyze"
Terminal == pc \in {"Success", "Failed"}
Answered(route) == pc = "Answered" /\ request.route = route
Last(seq) == seq[Len(seq)]
IsPrefix(s, t) == Len(s) <= Len(t) /\ SubSeq(t, 1, Len(s)) = s
CallNames == [i \in 1..Len(calls) |-> calls[i].name]
CredentialsPass ==
  /\ cred_status.called /\ ~cred_status.raised
  /\ cred_status.google /\ cred_status.openai
  /\ vision_client = "client"

\* The body is unparsable, or parses to something empty, or has no
\* non-empty imageUrl.
BadInput(body) ==
  LET p == json_loads(body) IN
  \/ ~p.ok
  \/ ~Truthy(p.value)
  \/ p.value.t # "dict"
  \/ ~Truthy(DictGet(p.value, "imageUrl"))

HasAllFields(v) ==
  SupportsIn(v) /\ \A i \in 1..Len(required_fields) : PyIn(required_fields[i], v)

\* GOOGLE_CREDENTIALS is absent, or is JSON that lacks a required field.
GoogleAbsentOrIncomplete ==
  \/ environ.GOOGLE_CREDENTIALS = <<>>
  \/ /\ json_loads(environ.GOOGLE_CREDENTIALS).ok
     /\ ~HasAllFields(json_loads(environ.GOOGLE_CREDENTIALS).value)

\* C1: a POST /analyze whose body is unparsable, empty or without a non-empty
\* imageUrl is answered 400 and makes no external call, in every credential
\* state and every state of the label-detection client.
C1_BadInputIs400 ==
  (IsAnalyze /\ BadInput(request.body)) =>
     /\ calls = <<>>
     /\ Terminal => response.status = 400

\* C2: with GOOGLE_CREDENTIALS absent or lacking a required field, GET /status
\* reports credentials.google = false and every POST /analyze is answered 500
\* with no external call made.
C2_BadGoogleCredentials ==
  GoogleAbsentOrIncomplete =>
     /\ Answered("GET /status") =>
          /\ response.status = 200 /\ response.kind = "json"
          /\ response.credentials.called /\ ~response.credentials.google
     /\ IsAnalyze => calls = <<>> /\ (Terminal => response.status = 500)

ObjectKeys(v) == {v.items[i].key : i \in 1..Len(v.items)}
SixKeySet == {SixKeys[i] : i \in 1..Len(SixKeys)}
AllCallsSucceeded ==
  /\ CallNames = <<"download", "label_detection", "generate">>
  /\ \A i \in 1..Len(calls) : calls[i].ok

\* C3 as stated: when the three calls succeed the response has success true
\* and an itemSpecifics that parses as a JSON object with exactly the six
\* keys; no success response carries any other itemSpecifics.
C3_ExactlySixKeys ==
  (IsAnalyze /\ pc = "Success") =>
     /\ response.success /\ response.itemSpecifics.present
     /\ json_loads(response.itemSpecifics.text).ok
     /\ json_loads(response.itemSpecifics.text).value.t = "dict"
     /\ ObjectKeys(json_loads(response.itemSpecifics.text).value) = SixKeySet

\* C3 amended: a success response carries the generated text unchanged, and
\* that text parses as JSON (whatever its keys); a request whose three calls
\* succeed with text that parses as JSON ends in a success response.
C3_SuccessIsParseableJSON ==
  /\ (IsAnalyze /\ pc = "Success") =>
        /\ response.status = 200 /\ response.success /\ ~response.hasError
        /\ response.itemSpecifics.present
        /\ response.itemSpecifics = specifics
        /\ json_loads(response.itemSpecifics.text).ok
        /\ response.labels = labels
        /\ AllCallsSucceeded
  /\ (IsAnalyze /\ Terminal /\ AllCallsSucceeded /\ specifics.present
        /\ json_loads(specifics.text).ok) => pc = "Success"

C3_Witness ==
  /\ IsAnalyze /\ pc = "Success"
  /\ json_loads(response.itemSpecifics.text).value.t = "dict"
  /\ ObjectKeys(json_loads(response.itemSpecifics.text).value) = SixKeySet

\* C4: generated text that does not parse as JSON is answered 500 with the
\* "Invalid JSON response" error, without itemSpecifics and without success.
C4_InvalidJSONRejected ==
  (IsAnalyze /\ Terminal /\ specifics.present /\ ~json_loads(specifics.text).ok) =>
     /\ pc = "Failed"
     /\ response.status = 500 /\ response.hasError
     /\ response.error = "Invalid JSON response from OpenAI"
     /\ ~response.success /\ ~response.itemSpecifics.present

C4_Witness ==
  /\ IsAnalyze /\ pc = "Failed" /\ specifics.present
  /\ specifics.text = <<P("{"), S("color"), P(":"), S("solid"), P(",")>>
  /\ response.status = 500

\* C5: for every label sequence the prompt is built without an index error:
\* it names the label at 0-based index 4 when there are at least 5 labels and
\* "clothing" when there are 0 to 4, and the Prompting stage never fails.
C5_PromptReference ==
  /\ ("Prompting" \in {stages[i] : i \in 1..Len(stages)}) =>
        /\ prompt.built /\ ~prompt.raised
        /\ prompt.labels = labels
        /\ Len(labels) >= 5 => prompt.item = labels[5]
        /\ Len(labels) <= 4 => prompt.item = "clothing"
  /\ ~(pc = "Failed" /\ stages # <<>> /\ Last(stages) = "Prompting")
  /\ response.error # "IndexError"

C5_Witness ==
  /\ prompt.built /\ Len(labels) = 4 /\ prompt.item = "clothing" /\ pc = "Success"

SpecStageOrder ==
  <<"ValidatingInput", "CheckingCredentials", "Downloading", "Labeling", "Prompting",
    "Generating", "ValidatingOutput", "Responding">>
CodeStageOrder ==
  <<"CheckingCredentials", "ValidatingInput", "Downloading", "Labeling", "Prompting",
    "Generating", "ValidatingOutput", "Responding">>
Running == pc \in {CodeStageOrder[i] : i \in 1..Len(CodeStageOrder)}

\* C6 as stated: the stages run in the order ValidatingInput,
\* CheckingCredentials, Downloading, Labeling, Prompting, Generating,
\* ValidatingOutput, Responding, each only after the earlier ones succeeded,
\* and the credential check is complete before any external call.
C6_SpecStageOrder ==
  /\ IsPrefix(stages, SpecStageOrder)
  /\ Running => pc = SpecStageOrder[Len(stages) + 1]
  /\ calls # <<>> => CredentialsPass

\* C6 amended: the order is CheckingCredentials, ValidatingInput, Downloading,
\* Labeling, Prompting, Generating, ValidatingOutput, Responding; a stage runs
\* only after every earlier one succeeded; the credential check (both flags
\* and an initialized client) has passed before the input is validated and
\* before any external call.
C6_CodeStageOrder ==
  /\ IsPrefix(stages, CodeStageOrder)
  /\ Running => pc = CodeStageOrder[Len(stages) + 1]
  /\ pc = "Success" => stages = CodeStageOrder
  /\ Len(stages) >= 2 => CredentialsPass
  /\ calls # <<>> => CredentialsPass

C6_Witness ==
  /\ IsAnalyze /\ pc = "Failed" /\ stages = <<"CheckingCredentials", "ValidatingInput">>
  /\ response.status = 400

\* Status the taxonomy gives a failure at the stage the request stopped in.
TaxonomyStatus ==
  CASE Last(stages) = "ValidatingInput" -> 400
    [] Last(stages) = "Downloading" -> IF Last(calls).raised THEN 500 ELSE 400
    [] OTHER -> 500

\* C7: every failure of POST /analyze is a JSON body with an error field and
\* the status of the taxonomy: 400 for malformed or missing input and for a
\* non-success download, 500 for everything else; nothing is unhandled.
C7_ErrorTaxonomy ==
  /\ (IsAnalyze /\ pc = "Failed") =>
        /\ response.kind = "json" /\ response.hasError
        /\ response.status = TaxonomyStatus
  /\ (IsAnalyze /\ Terminal) => response.kind = "json"

\* C8: each external call is made at most once, in the order download, label
\* detection, generation; a call that fails is the last call of the request
\* and the request ends in a failure response.
C8_NoRetryNoCallAfterFailure ==
  IsAnalyze =>
     /\ IsPrefix(CallNames, <<"download", "label_detection", "generate">>)
     /\ \A i \in 1..Len(calls) :
          ~calls[i].ok => /\ i = Len(calls)
                          /\ pc = "Failed"
                          /\ response.hasError /\ ~response.success

C8_Witness ==
  /\ IsAnalyze /\ pc = "Failed" /\ Len(calls) = 2
  /\ calls[2].name = "label_detection" /\ ~calls[2].ok
  /\ response.status = 500

\* C9: with the label-detection client uninitialized every POST /analyze is
\* answered 500 with an error and no external call, while GET /ping answers
\* 200 with status "ok" and GET / and GET /status answer 200 in every
\* credential state.
C9_DegradedButAlive ==
  /\ (vision_client = "None" /\ IsAnalyze) =>
        /\ calls = <<>>
        /\ Terminal => response.status = 500 /\ response.hasError
  /\ Answered("GET /ping") => response.status = 200 /\ response.statusField = "ok"
  /\ Answered("GET /") => response.status = 200
  /\ Answered("GET /status") => response.status = 200

\* C10: check_credentials never raises; google is true exactly when
\* GOOGLE_CREDENTIALS is present, parses and contains the four fields; openai
\* is true exactly when OPENAI_API_KEY is present, starts with sk- and is
\* longer than 20; errors has one entry per false flag.
C10_CheckCredentials ==
  cred_status.called =>
     /\ ~cred_status.raised
     /\ cred_status.google <=>
          /\ environ.GOOGLE_CREDENTIALS # <<>>
          /\ json_loads(environ.GOOGLE_CREDENTIALS).ok
          /\ HasAllFields(json_loads(environ.GOOGLE_CREDENTIALS).value)
     /\ cred_status.openai <=>
          /\ environ.OPENAI_API_KEY.len > KeyMinLen
          /\ startswith(environ.OPENAI_API_KEY, <<"s", "k", "-">>)
     /\ Len(cred_status.errors) = (IF cred_status.google THEN 0 ELSE 1)
                                  + (IF cred_status.openai THEN 0 ELSE 1)

====
